---- MODULE Spec2Model ----
(***************************************************************************)
(* py-travel: the Trip itinerary engine (src/py_travel/trip.py) and the    *)
(* Client it inherits from (src/py_travel/client.py).                      *)
(*                                                                         *)
(* One Trip object is modelled.  Its private fields are the variables;     *)
(* every public operation is one action that models the whole call,        *)
(* including the date reconciliation that calculate_trip runs at its end.  *)
(* Datetimes are integers (ticks); an optional datetime is the empty set   *)
(* (Python None) or a singleton {t}.  A Python dict is a sequence of       *)
(* key/value entries, in insertion order.                                  *)
(***************************************************************************)
EXTENDS Integers, Sequences, FiniteSets, TLC

VARIABLES
    client,          \* Client.client, the class-level googlemaps binding
    origin,          \* Trip.__origin
    destination,     \* Trip.__destination
    stops,           \* Trip.__stops
    departure_date,  \* Trip.__departure_date
    arrival_date,    \* Trip.__arrival_date
    config,          \* Trip.__config
    api_response,    \* Trip.__api_response
    updated,         \* Trip.__updated
    op,              \* the last operation called on the object
    calls,           \* the provider calls the last operation issued, in order
    warns,           \* the warnings the last operation emitted, in order
    status,          \* the status of the provider failure in the last operation
    err,             \* the exception the last operation raised ("none": it returned)
    ret,             \* the value the last operation returned
    ops              \* the number of operations called so far

vars == <<client, origin, destination, stops, departure_date, arrival_date,
          config, api_response, updated, op, calls, warns, status, err, ret, ops>>

observed == <<op, calls, warns, status, err, ret>>

----------------------------------------------------------------------------
(* Bounds of the model *)

\* The longest list of stops a caller passes.
MaxStops == 2
\* The number of operations in a run.
MaxOps == 3
\* The deepest nesting of calls between calculate_trip and update_dates that
\* is followed.
MaxDepth == 3
\* The tick datetime.now() gives during the run.
Now == 0
\* The number of ticks in a day.
TicksInDay == 2
\* The number of parts of a tick that datetime tells apart.
Resolution == 2

----------------------------------------------------------------------------
(* Values *)

None == {}
Some(t) == {t}
Val(d) == CHOOSE t \in d : TRUE

Missing == -1
Absent == "<absent>"
NoneStr == "None"

\* The dates a caller passes: a tick after Now, and the tick after it.
Dates == {1, 2}
OptDates == {None} \cup {Some(t) : t \in Dates}

\* The inputs a caller passes for a location: an address, a coordinate pair
\* or a Location object.
OriginInputs ==
    { [type |-> "tuple", coords |-> "(1.0, 1.0)", address |-> NoneStr] }
DestinationInputs ==
    { [type |-> "Location", coords |-> "(2.0, 2.0)", address |-> "B"] }
\* A stop is an address, or the point the origin is at.
StopLocationInputs ==
    { [type |-> "str", coords |-> NoneStr, address |-> "S1"],
      [type |-> "tuple", coords |-> "(1.0, 1.0)", address |-> NoneStr] }

StopInputs == [loc : StopLocationInputs, dep_date : Dates]
\* Lists of at most MaxStops stops, in any order of dates, where no stop
\* repeats the location of the one before it.
StopListInputs ==
    { l \in UNION { [1..n -> StopInputs] : n \in 0..MaxStops } :
        \A i \in 1..(Len(l) - 1) : l[i].loc # l[i + 1].loc }

\* A TripConfig, by the two keys the Trip reads: "mode" and "units".
EmptyConfig == [mode |-> Absent, units |-> Absent]
Configs ==
    { EmptyConfig,
      [mode |-> "driving", units |-> "imperial"],
      [mode |-> "transit", units |-> "metric"] }

\* The provider's map: the points lie on one road, at these places; a leg
\* takes one tick per unit, so a leg from a point to itself takes none.
Place(point) ==
    IF point = "(1.0, 1.0)" THEN 0
    ELSE IF point = "S1" THEN 1
    ELSE 3
Abs(x) == IF x < 0 THEN -x ELSE x

\* The steps of a leg of n units: one step of 1000 m and one tick per unit.
LegSteps(n) == [i \in 1..n |-> [distance |-> 1000, duration |-> 1]]

\* What the provider answers for one leg: legs[0] of the route.
LegResults(from, to) ==
    { [distance |-> 1000 * Abs(Place(to) - Place(from)),
       duration |-> Abs(Place(to) - Place(from)),
       steps |-> LegSteps(Abs(Place(to) - Place(from)))] }

\* The statuses of a googlemaps ApiError.
ApiStatuses == {"NOT_FOUND", "INVALID_REQUEST", "OVER_QUERY_LIMIT"}

----------------------------------------------------------------------------
(* Location *)

Location(coordinates, address) ==
    [coords |-> coordinates, address |-> address]

input_to_location(data) ==
    IF data.type = "Location" THEN Location(data.coords, data.address)
    ELSE IF data.type = "str" THEN Location(NoneStr, data.address)
    ELSE Location(data.coords, NoneStr)

coords_or_address(loc) ==
    IF loc.coords # NoneStr THEN loc.coords ELSE loc.address

----------------------------------------------------------------------------
(* Stops *)

Stop(location, dep_date) ==
    [location |-> location, departure_date |-> dep_date]

Front(s) == SubSeq(s, 1, Len(s) - 1)
Last(s) == s[Len(s)]

\* list.sort(key=departure_date): stable, ascending.
RECURSIVE insert_stop(_, _)
insert_stop(sorted, s) ==
    IF sorted = <<>> THEN <<s>>
    ELSE IF Last(sorted).departure_date <= s.departure_date
         THEN Append(sorted, s)
         ELSE Append(insert_stop(Front(sorted), s), Last(sorted))

RECURSIVE sort_stops(_)
sort_stops(list) ==
    IF list = <<>> THEN <<>>
    ELSE insert_stop(sort_stops(Front(list)), Last(list))

\* Fault model: the stops are stored in the order they are given.
make_stops_unsorted(inputs) ==
    [i \in 1..Len(inputs) |->
        Stop(input_to_location(inputs[i].loc), inputs[i].dep_date)]

make_stops(inputs) ==
    sort_stops([i \in 1..Len(inputs) |->
                   Stop(input_to_location(inputs[i].loc), inputs[i].dep_date)])

\* Fault model: the added stops are put before the stored ones.
add_stops_new_first(stps, inputs) ==
    sort_stops([i \in 1..Len(inputs) |->
                   Stop(input_to_location(inputs[i].loc), inputs[i].dep_date)] \o stps)

\* Trip.add_stops of models.py: extend, then sort.
add_stops(stps, inputs) ==
    sort_stops(stps \o [i \in 1..Len(inputs) |->
                   Stop(input_to_location(inputs[i].loc), inputs[i].dep_date)])

----------------------------------------------------------------------------
(* Python dicts, in insertion order *)

Keys(d) == [i \in 1..Len(d) |-> d[i].key]
HasKey(d, k) == \E i \in 1..Len(d) : d[i].key = k
DictGet(d, k) == d[CHOOSE i \in 1..Len(d) : d[i].key = k].value

\* d[k] = v: an existing key keeps its place, a new key goes last.
DictSet(d, k, v) ==
    IF HasKey(d, k)
    THEN [i \in 1..Len(d) |-> IF d[i].key = k THEN [key |-> k, value |-> v] ELSE d[i]]
    ELSE Append(d, [key |-> k, value |-> v])

\* The route the provider returns, as a dict: its "legs" entry.
Route(leg) == <<[key |-> "legs", value |-> leg]>>

----------------------------------------------------------------------------
(* TripConfig *)

\* `if trip_config:` is true of a dict that has a key.
config_truthy(cfg) == cfg # EmptyConfig
config_mode(cfg) == IF cfg.mode = Absent THEN "not_configured" ELSE cfg.mode
config_units(cfg) == IF cfg.units = Absent THEN "metric" ELSE cfg.units

----------------------------------------------------------------------------
(* The clock *)

\* What datetime.now() can give.
Clock == {Now}

----------------------------------------------------------------------------
(* Trip.__init__ *)

Init ==
    /\ client \in {"unbound", "bound"}
    /\ \E o \in OriginInputs : origin = input_to_location(o)
    /\ \E d \in DestinationInputs : destination = input_to_location(d)
    /\ \E s \in StopListInputs : stops = make_stops(s)
    /\ departure_date \in OptDates
    /\ arrival_date \in OptDates
    /\ \E c \in Configs : config = IF config_truthy(c) THEN c ELSE EmptyConfig
    /\ api_response = <<>>
    /\ updated = TRUE
    /\ op = "init"
    /\ calls = <<>>
    /\ warns = <<>>
    /\ status = "none"
    /\ err = "none"
    /\ ret = <<>>
    /\ ops = 0

----------------------------------------------------------------------------
(* Setters *)

\* A run is MaxOps operations.
Called ==
    /\ ops < MaxOps
    /\ ops' = ops + 1

Returned(name) ==
    /\ Called
    /\ op' = name
    /\ calls' = <<>>
    /\ warns' = <<>>
    /\ status' = "none"
    /\ err' = "none"
    /\ ret' = <<>>

set_client ==
    /\ client' = "bound"
    /\ Returned("set_client")
    /\ UNCHANGED <<origin, destination, stops, departure_date, arrival_date,
                   config, api_response, updated>>

set_origin(new_origin) ==
    /\ origin' = input_to_location(new_origin)
    /\ updated' = TRUE
    /\ Returned("set")
    /\ UNCHANGED <<client, destination, stops, departure_date, arrival_date,
                   config, api_response>>

set_destination(new_destination) ==
    /\ destination' = input_to_location(new_destination)
    /\ updated' = TRUE
    /\ Returned("set")
    /\ UNCHANGED <<client, origin, stops, departure_date, arrival_date,
                   config, api_response>>

set_stops(new_stops) ==
    /\ stops' = make_stops(new_stops)
    /\ updated' = TRUE
    /\ Returned("set")
    /\ UNCHANGED <<client, origin, destination, departure_date, arrival_date,
                   config, api_response>>

set_departure_date(new_departure_date) ==
    /\ departure_date' = new_departure_date
    /\ updated' = TRUE
    /\ Returned("set")
    /\ UNCHANGED <<client, origin, destination, stops, arrival_date,
                   config, api_response>>

\* Fault model: a setter that marks the trip only when the value changes.
set_arrival_date_if_changed(new_arrival_date) ==
    /\ arrival_date' = new_arrival_date
    /\ updated' = (updated \/ new_arrival_date # arrival_date)
    /\ Returned("set")
    /\ UNCHANGED <<client, origin, destination, stops, departure_date,
                   config, api_response>>

set_arrival_date(new_arrival_date) ==
    /\ arrival_date' = new_arrival_date
    /\ updated' = TRUE
    /\ Returned("set")
    /\ UNCHANGED <<client, origin, destination, stops, departure_date,
                   config, api_response>>

set_config(new_config) ==
    /\ config' = new_config
    /\ updated' = TRUE
    /\ Returned("set")
    /\ UNCHANGED <<client, origin, destination, stops, departure_date,
                   arrival_date, api_response>>

SetOrigin == \E o \in OriginInputs : set_origin(o)
SetDestination == \E d \in DestinationInputs : set_destination(d)
SetStops == \E s \in StopListInputs : set_stops(s)
SetDepartureDate == \E d \in OptDates : set_departure_date(d)
SetArrivalDate == \E d \in OptDates : set_arrival_date(d)
SetConfig == \E c \in Configs : set_config(c)

----------------------------------------------------------------------------
(* Client.directions and the provider *)

\* Client.directions: the wrapper around client.directions; what it raises
\* for a googlemaps ApiError of status st.
Client_directions_raises(st) ==
    IF st = "NOT_FOUND" THEN "LocationNotFoundError" ELSE "ApiError"

\* A direct self.client.directions call lets the provider's own exception
\* through.
client_directions_raises(st) == "googlemaps.exceptions.ApiError"

----------------------------------------------------------------------------
(* Warnings *)

ignore_field(field, message) ==
    "IGNORED FIELD '" \o field \o "': " \o message
update_date(date_name, message) ==
    "UPDATED " \o date_name \o " DATE: " \o message

IgnoredStops == ignore_field("arrival_date", "Ignored for trips with stops")
IgnoredMode == ignore_field("arrival_date", "Only used for transit mode")
UpdatedDeparture == update_date("DEPARTURE", "No departure date provided")
UpdatedStop == update_date("STOP", "Calculated arrival before departure date")
UpdatedArrivalMissing == update_date("ARRIVAL", "No arrival date provided")
UpdatedArrivalMismatch == update_date("ARRIVAL", "Calculated arrival does not match")

----------------------------------------------------------------------------
(* Trip.stages_seconds, as update_dates reads it when the trip is fresh *)

\* `not value`: None (the value is absent) and 0 are both falsy.
falsy(value) == value = Missing \/ value = 0

SetMin(S) == CHOOSE x \in S : \A y \in S : x <= y

\* With stops the loop runs over api_response.values(): an entry under "legs"
\* (left by a calculation without stops) is a list, and list has no .get.
stages_seconds(stps, resp) ==
    IF stps # <<>>
    THEN LET bad == { i \in 1..Len(resp) :
                        resp[i].key = "legs" \/ falsy(resp[i].value.duration) }
         IN IF bad = {}
            THEN [err |-> "none",
                  value |-> [i \in 1..Len(resp) |-> resp[i].value.duration]]
            ELSE [err |-> IF resp[SetMin(bad)].key = "legs"
                          THEN "AttributeError"
                          ELSE "InvalidResponseError",
                  value |-> <<>>]
    ELSE LET seconds_trip == IF HasKey(resp, "legs")
                             THEN DictGet(resp, "legs").duration
                             ELSE Missing
         IN IF falsy(seconds_trip)
            THEN [err |-> "InvalidResponseError", value |-> <<>>]
            ELSE [err |-> "none", value |-> <<seconds_trip>>]

----------------------------------------------------------------------------
(* Trip.update_dates *)

\* Fault model: a stop whose date is updated takes the location of the first
\* stop.
RECURSIVE check_stop_dates_first_location(_, _, _, _, _)
check_stop_dates_first_location(stps, travel_times, index, cur, acc) ==
    IF index > Len(stps) THEN acc
    ELSE LET stop == stps[index]
             stop_arrival == cur + travel_times[index]
             late == stop.departure_date < stop_arrival
         IN check_stop_dates_first_location(
                stps, travel_times, index + 1, stop.departure_date,
                [stops |-> IF late
                           THEN [acc.stops EXCEPT ![index] = Stop(stps[1].location, stop_arrival)]
                           ELSE acc.stops,
                 warns |-> IF late THEN Append(acc.warns, UpdatedStop) ELSE acc.warns])

\* "Check stop dates": acc is the list being rewritten and the warnings so far;
\* stps is the list as the loop reads it (an element is read before it is
\* replaced), cur is current_date.
RECURSIVE check_stop_dates(_, _, _, _, _)
check_stop_dates(stps, travel_times, index, cur, acc) ==
    IF index > Len(stps) THEN acc
    ELSE LET stop == stps[index]
             stop_arrival == cur + travel_times[index]
             late == stop.departure_date < stop_arrival
         IN check_stop_dates(stps, travel_times, index + 1, stop.departure_date,
                [stops |-> IF late
                           THEN [acc.stops EXCEPT ![index] = Stop(stop.location, stop_arrival)]
                           ELSE acc.stops,
                 warns |-> IF late THEN Append(acc.warns, UpdatedStop) ELSE acc.warns])

\* Fault model: with no date at all the departure is put before now.
departure_check_before_now(stps, dep, arr, travel_times, t) ==
    IF dep = None /\ arr = None THEN Some(t - 1)
    ELSE IF dep = None
         THEN IF stps = <<>>
              THEN Some(Val(arr) - travel_times[1])
              ELSE Some(stps[1].departure_date - travel_times[1])
         ELSE dep

\* Fault model: the departure is counted back from the arrival date also when
\* there are stops.
departure_check_from_arrival(stps, dep, arr, travel_times, t) ==
    IF dep = None /\ arr = None THEN Some(t)
    ELSE IF dep = None THEN Some(Val(arr) - travel_times[1])
    ELSE dep

\* "Check departure date": the departure date update_dates leaves.
departure_check(stps, dep, arr, travel_times, t) ==
    IF dep = None /\ arr = None THEN Some(t)
    ELSE IF dep = None
         THEN IF stps = <<>>
              THEN Some(Val(arr) - travel_times[1])
              ELSE Some(stps[1].departure_date - travel_times[1])
         ELSE dep

\* The dates and warnings update_dates leaves, for a trip that is not marked
\* updated; t is what datetime.now() gives.
update_dates(stps, dep, arr, resp, t) ==
    LET tt == stages_seconds(stps, resp) IN
    IF tt.err # "none"
    THEN [err |-> tt.err, stops |-> stps, departure_date |-> dep,
          arrival_date |-> arr, warns |-> <<>>]
    ELSE IF dep = None /\ arr # None /\ tt.value = <<>>
    \* travel_times[0] of an empty list
    THEN [err |-> "IndexError", stops |-> stps, departure_date |-> dep,
          arrival_date |-> arr, warns |-> <<>>]
    ELSE
    LET travel_times == tt.value
        dep1 == departure_check(stps, dep, arr, travel_times, t)
        w1 == IF dep = None THEN <<UpdatedDeparture>> ELSE <<>>
        \* the stops the loop gets through before travel_times[index] fails
        checked == IF Len(travel_times) < Len(stps)
                   THEN Len(travel_times) ELSE Len(stps)
        chk == IF stps # <<>>
               THEN check_stop_dates(SubSeq(stps, 1, checked), travel_times, 1,
                                     Val(dep1),
                                     [stops |-> SubSeq(stps, 1, checked),
                                      warns |-> <<>>])
               ELSE [stops |-> stps, warns |-> <<>>]
        stps1 == chk.stops \o SubSeq(stps, checked + 1, Len(stps))
        new_arrival == IF stps = <<>>
                       THEN Val(dep1) + travel_times[1]
                       ELSE Last(stps1).departure_date + Last(travel_times)
        arr1 == IF arr = None THEN Some(new_arrival)
                ELSE IF Val(arr) # new_arrival THEN Some(new_arrival)
                ELSE arr
        w3 == IF arr = None THEN <<UpdatedArrivalMissing>>
              ELSE IF Val(arr) # new_arrival THEN <<UpdatedArrivalMismatch>>
              ELSE <<>>
    IN IF checked < Len(stps)
       THEN [err |-> "IndexError", stops |-> stps1, departure_date |-> dep1,
             arrival_date |-> arr, warns |-> w1 \o chk.warns]
       ELSE [err |-> "none", stops |-> stps1, departure_date |-> dep1,
             arrival_date |-> arr1, warns |-> w1 \o chk.warns \o w3]

----------------------------------------------------------------------------
(* Trip.calculate_trip *)

\* Legs are numbered 1..Len(stops)+1: leg i <= Len(stops) runs into stops[i]
\* (enumerate index i-1), the last leg runs into the destination.
NLegs == Len(stops) + 1

stage_key(index) ==
    IF index > 0 THEN "stage_" \o ToString(index) ELSE "departure"

leg_key(i) == IF i <= Len(stops) THEN stage_key(i - 1) ELSE "arrival"

\* Fault model: a calculation that does not look at the updated flag.
needs_calculation_always(upd) == TRUE

\* `if not self.__updated: return self.__api_response`
needs_calculation(upd) == upd

\* `if not self.client: raise ClientNotInitializedError()`: the class only
\* annotates `client`, so until set_client has run the attribute lookup itself
\* fails.
client_check(c) ==
    IF c = "unbound" THEN "AttributeError"
    ELSE IF c = "None" THEN "ClientNotInitializedError"
    ELSE "none"

\* Fault model: the warning for a mode other than transit is left out.
ignored_field_stops_only(arr, stps, cfg) ==
    IF arr # None /\ stps # <<>> THEN <<IgnoredStops>> ELSE <<>>

ignored_field(arr, stps, cfg) ==
    IF arr # None /\ stps # <<>> THEN <<IgnoredStops>>
    ELSE IF arr # None /\ ~(config_mode(cfg) = "transit") THEN <<IgnoredMode>>
    ELSE <<>>

\* Fault model: current_location is never advanced past the origin.
current_location_stuck(i) == coords_or_address(origin)

\* Fault model: current_date is never advanced past the first leg's.
current_date_stuck(i, t) ==
    IF departure_date # None THEN Val(departure_date) ELSE t

\* current_location and current_date when leg i is requested.
current_location(i) ==
    IF i = 1 THEN coords_or_address(origin)
    ELSE coords_or_address(stops[i - 1].location)

current_date(i, t) ==
    IF i = 1
    THEN IF departure_date # None THEN Val(departure_date) ELSE t
    ELSE stops[i - 1].departure_date

leg_destination(i) ==
    IF i <= Len(stops) THEN coords_or_address(stops[i].location)
    ELSE coords_or_address(destination)

\* The request of leg i of a trip with stops: self.directions(...).
stage_call(i, t, cfg) ==
    [origin |-> current_location(i),
     destination |-> leg_destination(i),
     anchor |-> "departure_time",
     time |-> current_date(i, t),
     options |-> cfg,
     via |-> "Client.directions"]

\* Fault model: the arrival date is looked at before the departure date.
date_argument_arrival_first(dep, arr, cfg, t) ==
    IF arr # None /\ config_mode(cfg) = "transit"
    THEN [anchor |-> "arrival_time", time |-> Val(arr)]
    ELSE IF dep # None THEN [anchor |-> "departure_time", time |-> Val(dep)]
         ELSE [anchor |-> "departure_time", time |-> t]

\* date_argument of a trip without stops.
date_argument(dep, arr, cfg, t) ==
    IF dep # None THEN [anchor |-> "departure_time", time |-> Val(dep)]
    ELSE IF arr # None /\ config_mode(cfg) = "transit"
         THEN [anchor |-> "arrival_time", time |-> Val(arr)]
         ELSE [anchor |-> "departure_time", time |-> t]

\* The request of a trip without stops: self.client.directions(...).
single_call(t, cfg) ==
    [origin |-> coords_or_address(origin),
     destination |-> coords_or_address(destination),
     anchor |-> date_argument(departure_date, arrival_date, cfg, t).anchor,
     time |-> date_argument(departure_date, arrival_date, cfg, t).time,
     options |-> cfg,
     via |-> "client.directions"]

\* self.__api_response[key] = ... for the legs that were answered.
RECURSIVE write_stages(_, _, _)
write_stages(resp, i, results) ==
    IF i > Len(results) THEN resp
    ELSE write_stages(DictSet(resp, leg_key(i), results[i]), i + 1, results)

\* What the provider calls leave in api_response: with stops each answer is
\* stored under its key as it arrives; without stops the answer replaces it.
store_responses(resp, stps, results) ==
    IF stps # <<>> THEN write_stages(resp, 1, results)
    ELSE IF Len(results) = 1 THEN Route(results[1])
    ELSE resp

provider_raises(stps, st) ==
    IF stps # <<>> THEN Client_directions_raises(st)
    ELSE client_directions_raises(st)

issued_calls(stps, n, t, cfg) ==
    IF stps # <<>> THEN [i \in 1..n |-> stage_call(i, t, cfg)]
    ELSE [i \in 1..n |-> single_call(t, cfg)]

\* What the provider can answer for the first n legs, in order.
RECURSIVE provider_answers(_)
provider_answers(n) ==
    IF n = 0 THEN {<<>>}
    ELSE { Append(r, x) :
             r \in provider_answers(n - 1),
             x \in LegResults(current_location(n), leg_destination(n)) }

\* trip_config: the argument (EmptyConfig stands for None and {}).
\* t: what datetime.now() gives during the call.
\* results: the answers of the legs the provider answered, in order.
\* st: "none" when every leg was answered, else the status of the ApiError
\*     the provider raised for leg Len(results)+1.
\* Fault model: a config handed to calculate_trip does not mark the trip.
updated_after_config_kept(given, upd) == upd

\* `if config: self.config = config`: the config setter marks the trip.
updated_after_config(given, upd) == IF given THEN TRUE ELSE upd

calculate_trip(trip_config, t, results, st) ==
    LET given == config_truthy(trip_config)
        cfg == IF given THEN trip_config ELSE config
        upd == updated_after_config(given, updated)
        name == IF given THEN "calculate_trip(config)" ELSE "calculate_trip"
        ignored == ignored_field(arrival_date, stops, cfg)
        issued == Len(results) + (IF st = "none" THEN 0 ELSE 1)
    IN
    \E resp \in {store_responses(api_response, stops, results)} :
    \E dates \in {update_dates(stops, departure_date, arrival_date, resp, t)} :
    /\ Called
    /\ op' = name
    /\ config' = cfg
    /\ UNCHANGED <<client, origin, destination>>
    /\ IF ~needs_calculation(upd)
       THEN /\ results = <<>> /\ st = "none"
            /\ calls' = <<>> /\ warns' = <<>> /\ status' = "none"
            /\ err' = "none"
            /\ ret' = api_response
            /\ updated' = upd
            /\ UNCHANGED <<stops, departure_date, arrival_date, api_response>>
       ELSE IF client_check(client) # "none"
       THEN /\ results = <<>> /\ st = "none"
            /\ calls' = <<>> /\ warns' = <<>> /\ status' = "none"
            /\ err' = client_check(client)
            /\ ret' = <<>>
            /\ updated' = upd
            /\ UNCHANGED <<stops, departure_date, arrival_date, api_response>>
       ELSE IF st # "none"
       THEN /\ Len(results) < NLegs
            /\ calls' = issued_calls(stops, issued, t, cfg)
            /\ warns' = ignored
            /\ status' = st
            /\ err' = provider_raises(stops, st)
            /\ ret' = <<>>
            /\ updated' = upd
            /\ api_response' = resp
            /\ UNCHANGED <<stops, departure_date, arrival_date>>
       ELSE /\ Len(results) = NLegs
            /\ calls' = issued_calls(stops, issued, t, cfg)
            /\ status' = "none"
            /\ api_response' = resp
            /\ updated' = FALSE
            /\ err' = dates.err
            /\ stops' = dates.stops
            /\ departure_date' = dates.departure_date
            /\ arrival_date' = dates.arrival_date
            /\ warns' = ignored \o dates.warns
            /\ ret' = IF dates.err = "none" THEN resp ELSE <<>>

\* The provider answers every leg it is asked for (it is asked for none when
\* the call returns the stored response or finds no client).
CalculateTrip ==
    \E trip_config \in Configs :
    \E t \in Clock :
    \E n \in {0, NLegs} :
    \E results \in provider_answers(n) :
        calculate_trip(trip_config, t, results, "none")

\* The provider answers n legs and raises an ApiError for the next.
CalculateTripFails ==
    \E trip_config \in Configs :
    \E t \in Clock :
    \E n \in 0..(NLegs - 1) :
    \E results \in provider_answers(n) :
    \E st \in ApiStatuses :
        calculate_trip(trip_config, t, results, st)

\* What a provider that leaves out a field answers for one leg: the leg
\* without its duration, or without its distance.
LegResultsLacking(from, to) ==
    UNION { { [r EXCEPT !.duration = Missing], [r EXCEPT !.distance = Missing] } :
              r \in LegResults(from, to) }

\* The answers for the first n legs where leg k lacks a field.
provider_answers_lacking(n) ==
    UNION { { [r EXCEPT ![k] = x] :
                x \in LegResultsLacking(current_location(k), leg_destination(k)) } :
              r \in provider_answers(n), k \in 1..n }

\* The provider answers every leg, one of them without a field.
CalculateTripIncomplete ==
    \E trip_config \in Configs :
    \E t \in Clock :
    \E results \in provider_answers_lacking(NLegs) :
        calculate_trip(trip_config, t, results, "none")

----------------------------------------------------------------------------
(* Trip.update_dates, called by the user *)

\* Fault model: calculate_trip clears the flag only after update_dates.
updated_at_reconciliation_kept(upd) == upd

\* The flag when calculate_trip calls update_dates: it has been cleared.
updated_at_reconciliation(upd) == FALSE

\* The number of times the provider is asked for the whole trip when
\* calculate_trip() (update_dates()) is called with the flag upd, at nesting
\* depth `depth`, and every leg is answered.  update_dates calls
\* calculate_trip when the flag is set, then reads stages_seconds, which does
\* the same; calculate_trip calls update_dates.
RECURSIVE calculate_trip_rounds(_, _)
RECURSIVE update_dates_rounds(_, _)
calculate_trip_rounds(upd, depth) ==
    IF ~needs_calculation(upd) THEN 0
    ELSE IF depth >= MaxDepth THEN 1
    ELSE 1 + update_dates_rounds(updated_at_reconciliation(upd), depth + 1)

update_dates_rounds(upd, depth) ==
    calculate_trip_rounds(upd, depth)
        + calculate_trip_rounds(IF upd THEN updated_at_reconciliation(upd)
                                ELSE upd, depth)

Repeat(seq, k) ==
    [i \in 1..(k * Len(seq)) |-> seq[((i - 1) % Len(seq)) + 1]]

\* t, results, st: as for calculate_trip.
update_dates_call(t, results, st) ==
    LET ignored == ignored_field(arrival_date, stops, config)
        issued == Len(results) + (IF st = "none" THEN 0 ELSE 1)
    IN
    \E resp \in {store_responses(api_response, stops, results)} :
    \* update_dates as calculate_trip runs it
    \E inner \in {update_dates(stops, departure_date, arrival_date, resp, t)} :
    \* the rest of this call, on what calculate_trip has left
    \E outer \in {update_dates(inner.stops, inner.departure_date,
                               inner.arrival_date, resp, t)} :
    \* this call on a trip that is not marked updated
    \E fresh \in {update_dates(stops, departure_date, arrival_date,
                               api_response, t)} :
    /\ Called
    /\ op' = "update_dates"
    /\ ret' = <<>>
    /\ UNCHANGED <<client, origin, destination, config>>
    /\ IF ~updated
       THEN /\ results = <<>> /\ st = "none"
            /\ calls' = <<>> /\ status' = "none"
            /\ err' = fresh.err
            /\ warns' = fresh.warns
            /\ stops' = fresh.stops
            /\ departure_date' = fresh.departure_date
            /\ arrival_date' = fresh.arrival_date
            /\ UNCHANGED <<api_response, updated>>
       ELSE IF client_check(client) # "none"
       THEN /\ results = <<>> /\ st = "none"
            /\ calls' = <<>> /\ warns' = <<>> /\ status' = "none"
            /\ err' = client_check(client)
            /\ UNCHANGED <<stops, departure_date, arrival_date, api_response,
                           updated>>
       ELSE IF st # "none"
       THEN /\ Len(results) < NLegs
            /\ calls' = issued_calls(stops, issued, t, config)
            /\ warns' = ignored
            /\ status' = st
            /\ err' = provider_raises(stops, st)
            /\ api_response' = resp
            /\ UNCHANGED <<stops, departure_date, arrival_date, updated>>
       ELSE /\ Len(results) = NLegs
            /\ calls' = Repeat(issued_calls(stops, issued, t, config),
                               update_dates_rounds(updated, 0))
            /\ status' = "none"
            /\ api_response' = resp
            /\ updated' = FALSE
            /\ IF inner.err # "none"
               THEN /\ err' = inner.err
                    /\ warns' = ignored \o inner.warns
                    /\ stops' = inner.stops
                    /\ departure_date' = inner.departure_date
                    /\ arrival_date' = inner.arrival_date
               ELSE /\ err' = outer.err
                    /\ warns' = ignored \o inner.warns \o outer.warns
                    /\ stops' = outer.stops
                    /\ departure_date' = outer.departure_date
                    /\ arrival_date' = outer.arrival_date

UpdateDates ==
    \E t \in Clock :
    \E n \in {0, NLegs} :
    \E results \in provider_answers(n) :
        update_dates_call(t, results, "none")

UpdateDatesFails ==
    \E t \in Clock :
    \E n \in 0..(NLegs - 1) :
    \E results \in provider_answers(n) :
    \E st \in ApiStatuses :
        update_dates_call(t, results, st)

----------------------------------------------------------------------------
(* Trip.add_stops (models.py) and Trip.set_response *)

\* add_stops of models.py: the stops are added to the stored ones, the list
\* is sorted and the trip is marked.  A caller adds stops while the list has
\* room for them.
add_stops_call(new_stops) ==
    /\ Len(stops) + Len(new_stops) <= MaxStops
    /\ stops' = add_stops(stops, new_stops)
    /\ updated' = TRUE
    /\ Returned("add_stops")
    /\ UNCHANGED <<client, origin, destination, departure_date, arrival_date,
                   config, api_response>>

AddStops == \E s \in StopListInputs : add_stops_call(s)

\* The responses a test hands to set_response: an empty dict, and a route
\* whose leg has no distance.
ResponseInputs ==
    { <<>>,
      Route([distance |-> Missing, duration |-> 1,
             steps |-> <<[distance |-> 1000, duration |-> 1]>>]) }

set_response(response) ==
    /\ api_response' = response
    /\ updated' = FALSE
    /\ Returned("set_response")
    /\ UNCHANGED <<client, origin, destination, stops, departure_date,
                   arrival_date, config>>

SetResponse == \E r \in ResponseInputs : set_response(r)

\* Responses whose leg has a step that takes no time: alone, first and last.
ZeroStepResponses ==
    { Route([distance |-> 2000, duration |-> 1, steps |-> steps]) :
        steps \in { <<[distance |-> 1000, duration |-> 0]>>,
                    <<[distance |-> 1000, duration |-> 0],
                      [distance |-> 1000, duration |-> 1]>>,
                    <<[distance |-> 1000, duration |-> 1],
                      [distance |-> 1000, duration |-> 0]>> } }

SetResponseZeroStep == \E r \in ZeroStepResponses : set_response(r)

\* A response whose only step takes longer than its leg.
LongStepResponses ==
    { Route([distance |-> 1000, duration |-> 1,
             steps |-> <<[distance |-> 1000, duration |-> 3]>>]) }

SetResponseLongStep == \E r \in LongStepResponses : set_response(r)

----------------------------------------------------------------------------
(* Quantities: a float is the exact fraction it stands for *)

RECURSIVE GCD(_, _)
GCD(a, b) == IF b = 0 THEN a ELSE GCD(b, a % b)

\* n / d, for d > 0, in lowest terms.
Rat(n, d) ==
    LET g == GCD(Abs(n), d) IN [num |-> n \div g, den |-> d \div g]

RatAdd(x, y) == Rat(x.num * y.den + y.num * x.den, x.den * y.den)

\* METERS_IN_MILE = 1609.344
MillimetersInMile == 1609344

\* Fault model: the unit of the config is not looked at.
in_units_metric_only(meters, cfg) == Rat(meters.num, meters.den * 1000)

\* `meters / 1000 if config.get("units", "metric") == "metric" else
\* meters_to_miles(meters)`
in_units(meters, cfg) ==
    IF config_units(cfg) = "metric"
    THEN Rat(meters.num, meters.den * 1000)
    ELSE Rat(meters.num * 1000, meters.den * MillimetersInMile)

----------------------------------------------------------------------------
(* The derived metrics, as they are read once the trip is not marked *)

\* get_distance / get_duration of utils.py: an absent value reads as -1 and
\* is refused, 0 is accepted.
refused(value) == value < 0

\* The first entry of the response, in dict order, that a loop over
\* api_response.values() stops at: an entry under "legs" is a list (it has no
\* .get), any other is a route; `bad` holds the places of the routes whose
\* value is not taken.
first_failure(resp, bad) ==
    LET failing == { i \in 1..Len(resp) : resp[i].key = "legs" \/ i \in bad }
    IN IF failing = {} THEN "none"
       ELSE IF resp[SetMin(failing)].key = "legs" THEN "AttributeError"
       ELSE "InvalidResponseError"

RECURSIVE Sum(_)
Sum(s) == IF s = <<>> THEN 0 ELSE Sum(Front(s)) + Last(s)

\* The leg a trip without stops reads: api_response.get("legs", [{}])[0].
single_leg(resp) ==
    IF HasKey(resp, "legs") THEN DictGet(resp, "legs")
    ELSE [distance |-> Missing, duration |-> Missing, steps |-> <<>>]

distance_refused(resp) ==
    { i \in 1..Len(resp) : refused(resp[i].value.distance) }
distance_falsy(resp) ==
    { i \in 1..Len(resp) : falsy(resp[i].value.distance) }

\* Trip.distance
distance(stps, resp, cfg) ==
    IF stps # <<>>
    THEN LET failure == first_failure(resp, distance_refused(resp))
         IN IF failure # "none" THEN [err |-> failure, value |-> <<>>]
            ELSE [err |-> "none",
                  value |-> in_units(
                      Rat(Sum([i \in 1..Len(resp) |-> resp[i].value.distance]), 1),
                      cfg)]
    ELSE IF refused(single_leg(resp).distance)
         THEN [err |-> "InvalidResponseError", value |-> <<>>]
         ELSE [err |-> "none",
               value |-> in_units(Rat(single_leg(resp).distance, 1), cfg)]

\* Trip.seconds: with stops the loop sums get_distance of every stage.
seconds(stps, resp) ==
    IF stps # <<>>
    THEN LET failure == first_failure(resp, distance_refused(resp))
         IN IF failure # "none" THEN [err |-> failure, value |-> <<>>]
            ELSE [err |-> "none",
                  value |-> Sum([i \in 1..Len(resp) |-> resp[i].value.distance])]
    ELSE IF refused(single_leg(resp).duration)
         THEN [err |-> "InvalidResponseError", value |-> <<>>]
         ELSE [err |-> "none", value |-> single_leg(resp).duration]

\* datetime.date(): the day a tick falls on.
date(t) == t \div TicksInDay

\* Fault model: the day of arrival is not counted.
days_without_last(dep, arr) ==
    IF dep = None \/ arr = None
    THEN [err |-> "AttributeError", value |-> <<>>]
    ELSE [err |-> "none", value |-> date(Val(arr)) - date(Val(dep))]

\* Trip.days: None has no .date().
days(dep, arr) ==
    IF dep = None \/ arr = None
    THEN [err |-> "AttributeError", value |-> <<>>]
    ELSE [err |-> "none", value |-> date(Val(arr)) - date(Val(dep)) + 1]

\* Trip.stages_distances
stages_distances(stps, resp, cfg) ==
    IF stps # <<>>
    THEN LET failure == first_failure(resp, distance_falsy(resp))
         IN IF failure # "none" THEN [err |-> failure, value |-> <<>>]
            ELSE [err |-> "none",
                  value |-> [i \in 1..Len(resp) |->
                               in_units(Rat(resp[i].value.distance, 1), cfg)]]
    ELSE IF falsy(single_leg(resp).distance)
         THEN [err |-> "InvalidResponseError", value |-> <<>>]
         ELSE [err |-> "none",
               value |-> <<in_units(Rat(single_leg(resp).distance, 1), cfg)>>]

----------------------------------------------------------------------------
(* Trip.travel_calendar *)

\* A datetime inside travel_calendar is a number of parts of a tick; the
\* last instant of a day, datetime.max.time(), is one part before midnight.
DayParts == TicksInDay * Resolution
date_of_parts(p) == p \div DayParts
min_time(day) == day * DayParts
max_time(day) == (day + 1) * DayParts - 1

\* get_steps of utils.py: the (meters, seconds) of every step of the leg.
get_steps(resp) ==
    LET raw_steps == single_leg(resp).steps
    IN IF raw_steps = <<>>
       THEN [err |-> "InvalidResponseError", value |-> <<>>]
       ELSE IF \E i \in 1..Len(raw_steps) :
                  refused(raw_steps[i].distance) \/ refused(raw_steps[i].duration)
       THEN [err |-> "InvalidResponseError", value |-> <<>>]
       ELSE [err |-> "none",
             value |-> [i \in 1..Len(raw_steps) |->
                          <<raw_steps[i].distance, raw_steps[i].duration>>]]

\* The calendar is a list of (day, meters) entries, in insertion order.
HasDay(calendar, day) == \E k \in 1..Len(calendar) : calendar[k].day = day

AddMeters(calendar, day, meters) ==
    [k \in 1..Len(calendar) |->
        IF calendar[k].day = day
        THEN [day |-> day, meters |-> RatAdd(calendar[k].meters, meters)]
        ELSE calendar[k]]

\* `while current_date < new_date` (cur_date is current_date): the distance of one step, a pair
\* (meters, seconds), is added to the days it spans.
RECURSIVE spread_step(_, _, _, _, _)
spread_step(calendar, step, cur_date, new_date, max_day) ==
    IF ~(cur_date < new_date)
    THEN [err |-> "none", calendar |-> calendar,
          cur_date |-> cur_date, max_day |-> max_day]
    ELSE IF ~HasDay(calendar, date_of_parts(cur_date))
    THEN [err |-> "KeyError", calendar |-> calendar,
          cur_date |-> cur_date, max_day |-> max_day]
    ELSE IF new_date <= max_day
    THEN spread_step(
             AddMeters(calendar, date_of_parts(cur_date),
                       Rat((new_date - cur_date) * step[1],
                           Resolution * step[2])),
             step, new_date, new_date, max_day)
    ELSE spread_step(
             AddMeters(calendar, date_of_parts(cur_date),
                       Rat((max_day - cur_date) * step[1],
                           Resolution * step[2])),
             step,
             min_time(date_of_parts(cur_date) + 1),
             new_date,
             max_time(date_of_parts(cur_date) + 1))

\* `for step in steps`
RECURSIVE spread_steps(_, _, _, _, _)
spread_steps(calendar, steps, i, cur_date, max_day) ==
    IF i > Len(steps)
    THEN [err |-> "none", calendar |-> calendar]
    ELSE IF steps[i][2] = 0
    THEN [err |-> "ZeroDivisionError", calendar |-> calendar]
    ELSE LET after == spread_step(calendar, steps[i], cur_date,
                          cur_date + steps[i][2] * Resolution, max_day)
         IN IF after.err # "none"
            THEN [err |-> after.err, calendar |-> calendar]
            ELSE spread_steps(after.calendar, steps, i + 1,
                              after.cur_date, after.max_day)

\* Trip.travel_calendar
travel_calendar(stps, dep, arr, resp, cfg) ==
    LET trip_days == days(dep, arr) IN
    IF trip_days.err # "none" THEN [err |-> trip_days.err, value |-> <<>>]
    ELSE
    LET calendar == [k \in 1..trip_days.value |->
                        [day |-> date(Val(dep)) + (k - 1), meters |-> Rat(0, 1)]]
        cur_date == Val(dep) * Resolution
        max_day == max_time(date_of_parts(cur_date))
        steps == get_steps(resp)
    IN IF stps # <<>> THEN [err |-> "NotImplementedError", value |-> <<>>]
       ELSE IF steps.err # "none" THEN [err |-> steps.err, value |-> <<>>]
       ELSE LET spread == spread_steps(calendar, steps.value, 1,
                                       cur_date, max_day)
            IN IF spread.err # "none" THEN [err |-> spread.err, value |-> <<>>]
               ELSE [err |-> "none",
                     value |-> [k \in 1..Len(spread.calendar) |->
                                  <<spread.calendar[k].day,
                                    in_units(spread.calendar[k].meters, cfg)>>]]

----------------------------------------------------------------------------
(* Reading a derived metric *)

\* Fault model: a property that reads the stored response as it is.
metric_calculates_never(upd) == FALSE

\* `if self.__updated: self.calculate_trip()`
metric_calculates(upd) == upd

\* The trip after that statement; t and results are as for calculate_trip,
\* with a provider that answers every leg.
calculate_first(t, results) ==
    LET ignored == ignored_field(arrival_date, stops, config)
        resp == store_responses(api_response, stops, results)
        dates == update_dates(stops, departure_date, arrival_date, resp, t)
        unchanged == [err |-> "none", calls |-> <<>>, warns |-> <<>>,
                      stops |-> stops, departure_date |-> departure_date,
                      arrival_date |-> arrival_date,
                      api_response |-> api_response, updated |-> updated]
    IN IF ~(metric_calculates(updated) /\ needs_calculation(updated))
       THEN unchanged
       ELSE IF client_check(client) # "none"
       THEN [unchanged EXCEPT !.err = client_check(client)]
       ELSE [err |-> dates.err,
             calls |-> Repeat(issued_calls(stops, Len(results), t, config),
                              calculate_trip_rounds(updated, 0)),
             warns |-> ignored \o dates.warns,
             stops |-> dates.stops,
             departure_date |-> dates.departure_date,
             arrival_date |-> dates.arrival_date,
             api_response |-> resp,
             updated |-> FALSE]

\* The number of legs the provider is asked for by that statement.
legs_asked ==
    IF metric_calculates(updated) /\ needs_calculation(updated)
       /\ client_check(client) = "none"
    THEN NLegs ELSE 0

distance_of(trip) == distance(trip.stops, trip.api_response, config)
seconds_of(trip) == seconds(trip.stops, trip.api_response)
days_of(trip) == days(trip.departure_date, trip.arrival_date)
stages_distances_of(trip) ==
    stages_distances(trip.stops, trip.api_response, config)
stages_seconds_of(trip) == stages_seconds(trip.stops, trip.api_response)
travel_calendar_of(trip) ==
    travel_calendar(trip.stops, trip.departure_date, trip.arrival_date,
                    trip.api_response, config)

\* The value of the property `name` on a trip.
metric_value(name, trip) ==
    CASE name = "distance" -> distance_of(trip)
      [] name = "seconds" -> seconds_of(trip)
      [] name = "days" -> days_of(trip)
      [] name = "stages_distances" -> stages_distances_of(trip)
      [] name = "stages_seconds" -> stages_seconds_of(trip)
      [] name = "travel_calendar" -> travel_calendar_of(trip)

\* The value a property returns, as it is kept in `ret`: a list of fractions
\* (an integer n is n/1); an entry of the calendar keeps its day.
returned(name, value) ==
    CASE name = "distance" -> <<value>>
      [] name \in {"seconds", "days"} -> <<Rat(value, 1)>>
      [] name = "stages_distances" -> value
      [] name = "stages_seconds" ->
            [i \in 1..Len(value) |-> Rat(value[i], 1)]
      [] name = "travel_calendar" ->
            [k \in 1..Len(value) |->
                [day |-> value[k][1], amount |-> value[k][2]]]

\* A property `name` is read: its value on the trip that the calculation has
\* left.
read_metric(name, t, results) ==
    \E trip \in {calculate_first(t, results)} :
    \E metric \in {metric_value(name, trip)} :
    /\ Called
    /\ Len(results) = legs_asked
    /\ op' = name
    /\ calls' = trip.calls
    /\ warns' = trip.warns
    /\ status' = "none"
    /\ stops' = trip.stops
    /\ departure_date' = trip.departure_date
    /\ arrival_date' = trip.arrival_date
    /\ api_response' = trip.api_response
    /\ updated' = trip.updated
    /\ err' = IF trip.err # "none" THEN trip.err ELSE metric.err
    /\ ret' = IF trip.err # "none" \/ metric.err # "none" THEN <<>>
              ELSE returned(name, metric.value)
    /\ UNCHANGED <<client, origin, destination, config>>

Distance ==
    \E t \in Clock : \E results \in provider_answers(legs_asked) :
        read_metric("distance", t, results)
Seconds ==
    \E t \in Clock : \E results \in provider_answers(legs_asked) :
        read_metric("seconds", t, results)
Days ==
    \E t \in Clock : \E results \in provider_answers(legs_asked) :
        read_metric("days", t, results)
StagesDistances ==
    \E t \in Clock : \E results \in provider_answers(legs_asked) :
        read_metric("stages_distances", t, results)
StagesSeconds ==
    \E t \in Clock : \E results \in provider_answers(legs_asked) :
        read_metric("stages_seconds", t, results)
TravelCalendar ==
    \E t \in Clock : \E results \in provider_answers(legs_asked) :
        read_metric("travel_calendar", t, results)

----------------------------------------------------------------------------
Next ==
    \/ set_client
    \/ SetOrigin
    \/ SetDestination
    \/ SetStops
    \/ SetDepartureDate
    \/ SetArrivalDate
    \/ SetConfig
    \/ CalculateTrip
    \/ UpdateDates

\* The operations, with a provider that answers.
Spec == Init /\ [][Next]_vars

\* The operations, with a provider that can also fail.
NextF ==
    \/ Next
    \/ CalculateTripFails
    \/ UpdateDatesFails

SpecF == Init /\ [][NextF]_vars

\* The operations and add_stops of models.py, with a provider that answers.
NextA ==
    \/ Next
    \/ AddStops

SpecA == Init /\ [][NextA]_vars

\* The operations, set_response and the derived metrics, with a provider that
\* answers.
NextM ==
    \/ Next
    \/ SetResponse
    \/ Distance
    \/ Seconds
    \/ Days
    \/ StagesDistances
    \/ StagesSeconds
    \/ TravelCalendar

SpecM == Init /\ [][NextM]_vars

\* The same, with a provider that can leave a field out of an answer.
\* Trips constructed with a departure date well after the dates of the stops.
LateDates == {6}
InitLate ==
    /\ client \in {"unbound", "bound"}
    /\ \E o \in OriginInputs : origin = input_to_location(o)
    /\ \E d \in DestinationInputs : destination = input_to_location(d)
    /\ \E s \in StopListInputs : stops = make_stops(s)
    /\ departure_date \in {Some(t) : t \in LateDates}
    /\ arrival_date \in OptDates
    /\ \E c \in Configs : config = IF config_truthy(c) THEN c ELSE EmptyConfig
    /\ api_response = <<>>
    /\ updated = TRUE
    /\ op = "init"
    /\ calls = <<>>
    /\ warns = <<>>
    /\ status = "none"
    /\ err = "none"
    /\ ret = <<>>
    /\ ops = 0
SpecLate == InitLate /\ [][Next]_vars

NextZ ==
    Next \/ SetResponseZeroStep \/ SetResponseLongStep \/ TravelCalendar
SpecZ == Init /\ [][NextZ]_vars

NextI ==
    \/ NextM
    \/ CalculateTripIncomplete

SpecI == Init /\ [][NextI]_vars

----------------------------------------------------------------------------
(* Properties *)

ComputeOps == {"calculate_trip", "calculate_trip(config)"}

\* The step is a calculate_trip call that finds the trip marked updated
\* (a config argument marks it) and the provider bound.
CalculatesDirty ==
    /\ op' \in ComputeOps
    /\ updated \/ op' = "calculate_trip(config)"
    /\ client = "bound"

Range(s) == { s[i] : i \in 1..Len(s) }

\* C1: right after any setter (also one that sets a field to the value it
\* has) `updated` is true, and right after a calculate_trip that returns it is
\* false.
C1_DirtyAfterSetFreshAfterCalculate ==
    /\ op = "set" => updated = TRUE
    /\ (op \in ComputeOps /\ err = "none") => updated = FALSE

\* A setter has run on a trip that holds a calculated response.
C1_Witness ==
    /\ op = "set"
    /\ updated = TRUE
    /\ HasKey(api_response, "legs")
    /\ arrival_date # None /\ departure_date # None

\* C2: a calculate_trip() with no config argument that directly follows a
\* calculate_trip that returned issues no provider call and returns the same
\* response again.
C2_SecondCalculateIsNoOp ==
    [][ (op \in ComputeOps /\ err = "none" /\ op' = "calculate_trip")
          => /\ calls' = <<>>
             /\ err' = "none"
             /\ ret' = ret
             /\ api_response' = api_response
             /\ updated' = FALSE ]_vars

\* The second of two calls in a row has returned the stored response.
C2_Witness ==
    /\ op = "calculate_trip"
    /\ err = "none"
    /\ calls = <<>>
    /\ ret # <<>>
    /\ ret = api_response
    /\ updated = FALSE

\* C3: when the provider fails for a leg, calculate_trip raises, api_response
\* is what it was before the call and `updated` is true.
C3_NoPartialCommit ==
    [][ (op' \in ComputeOps /\ status' # "none")
          => /\ err' # "none"
             /\ api_response' = api_response
             /\ updated' = TRUE ]_vars

\* The keys of a response for n stops, in order.
ExpectedKeys(n) ==
    [i \in 1..(n + 1) |->
        IF i = 1 THEN "departure"
        ELSE IF i <= n THEN "stage_" \o ToString(i - 1)
        ELSE "arrival"]

\* C4: after a calculate_trip that returns, on a trip with n >= 1 stops,
\* api_response holds exactly the keys departure, stage_1 .. stage_{n-1},
\* arrival, in this order.
C4_KeysAreTheLegs ==
    (op \in ComputeOps /\ err = "none" /\ stops # <<>>)
        => Keys(api_response) = ExpectedKeys(Len(stops))

\* The route of the trip: origin, the stops in order, destination.
RoutePoints ==
    <<coords_or_address(origin)>>
        \o [i \in 1..Len(stops) |-> coords_or_address(stops[i].location)]
        \o <<coords_or_address(destination)>>

\* C5: a calculate_trip on a trip marked updated issues its calls in leg
\* order, call i from route point i to route point i+1, and issues
\* Len(stops)+1 of them when the provider answers every one.
C5_CallsFollowTheRoute ==
    [][ CalculatesDirty
          => /\ Len(calls') <= Len(stops) + 1
             /\ \A i \in 1..Len(calls') :
                   /\ calls'[i].origin = RoutePoints[i]
                   /\ calls'[i].destination = RoutePoints[i + 1]
             /\ status' = "none" => Len(calls') = Len(stops) + 1
             /\ status' # "none" => Len(calls') >= 1 ]_vars

\* A trip with two stops has been calculated with three calls.
C5_Witness ==
    /\ op \in ComputeOps
    /\ status = "none"
    /\ Len(calls) = 3
    /\ Len(stops) = 2
    /\ calls[2].origin # calls[1].origin

\* C6: with stops, every call is anchored by a departure time: the first by
\* departure_date, or by the current time when it is unset, and call i > 1 by
\* the departure date stop i-1 has when calculate_trip starts.
C6_StopsAnchorByDeparture ==
    [][ (CalculatesDirty /\ stops # <<>>)
          => \A i \in 1..Len(calls') :
                /\ calls'[i].anchor = "departure_time"
                /\ calls'[i].time =
                     IF i > 1 THEN stops[i - 1].departure_date
                     ELSE IF departure_date # None THEN Val(departure_date)
                     ELSE Now ]_vars

\* A trip with two stops and no departure date has been calculated: the first
\* call was anchored at the current time, a later one at a stop's date.
C6_Witness ==
    /\ op \in ComputeOps
    /\ Len(calls) = 3
    /\ UpdatedDeparture \in Range(warns)
    /\ calls[1].time = Now
    /\ calls[3].time # calls[1].time

\* C7: without stops calculate_trip issues one call, anchored by
\* departure_date when it is set; else by arrival_date when that is set and the
\* mode is transit; else by a departure at the current time.
C7_SingleCallAnchor ==
    [][ (CalculatesDirty /\ stops = <<>>)
          => /\ Len(calls') = 1
             /\ calls'[1].anchor \in {"departure_time", "arrival_time"}
             /\ IF departure_date # None
                THEN /\ calls'[1].anchor = "departure_time"
                     /\ calls'[1].time = Val(departure_date)
                ELSE IF arrival_date # None /\ config'.mode = "transit"
                THEN /\ calls'[1].anchor = "arrival_time"
                     /\ calls'[1].time = Val(arrival_date)
                ELSE /\ calls'[1].anchor = "departure_time"
                     /\ calls'[1].time = Now ]_vars

\* A call anchored by the arrival date has been issued.
C7_Witness ==
    /\ op \in ComputeOps
    /\ Len(calls) = 1
    /\ calls[1].anchor = "arrival_time"
    /\ calls[1].options.mode = "transit"

\* C8: without stops and departure_date, with arrival_date set and a mode
\* other than transit, calculate_trip warns that arrival_date is ignored,
\* still issues the call anchored by a departure at the current time, and when
\* the provider answers stores the route and clears `updated`.
C8_IgnoredArrivalDoesNotAbort ==
    [][ (/\ CalculatesDirty
         /\ stops = <<>>
         /\ departure_date = None
         /\ arrival_date # None
         /\ config'.mode # "transit")
          => /\ warns' # <<>> /\ warns'[1] = IgnoredMode
             /\ Len(calls') = 1
             /\ calls'[1].anchor = "departure_time"
             /\ calls'[1].time = Now
             /\ status' = "none"
                  => /\ Keys(api_response') = <<"legs">>
                     /\ updated' = FALSE ]_vars

\* Such a trip has been calculated: the warning was given, the route stored.
C8_Witness ==
    /\ op \in ComputeOps
    /\ warns # <<>> /\ warns[1] = IgnoredMode
    /\ UpdatedDeparture \in Range(warns)
    /\ Len(calls) = 1
    /\ err = "none"
    /\ updated = FALSE
    /\ Keys(api_response) = <<"legs">>

\* C9: a calculate_trip with no provider bound raises
\* ClientNotInitializedError.
C9_UnboundRaisesClientNotInitialized ==
    (op \in ComputeOps /\ client = "unbound")
        => err = "ClientNotInitializedError"

\* The exception that a provider failure of status st is to reach the caller as.
ExpectedError(st) ==
    IF st = "NOT_FOUND" THEN "LocationNotFoundError"
    ELSE IF st = "INVALID_REQUEST" THEN "InvalidRequestError"
    ELSE "ApiError"

\* C10: for every leg, with or without stops, a provider failure reaches the
\* caller as LocationNotFoundError (NOT_FOUND), InvalidRequestError
\* (INVALID_REQUEST) or ApiError (any other status).
C10_ProviderErrorsAreMapped ==
    (op \in ComputeOps /\ status # "none") => err = ExpectedError(status)

----------------------------------------------------------------------------
(* Stops and date reconciliation *)

Sorted(stps) ==
    \A i \in 1..(Len(stps) - 1) :
        stps[i].departure_date <= stps[i + 1].departure_date

\* C11: the stops stored by the constructor and by the stops setter are in
\* ascending order of departure_date, whatever the order they are given in,
\* and so is the list add_stops leaves for any stops added to the stored ones.
C11_StoredStopsAreSorted ==
    /\ [](op = "init" => Sorted(stops))
    /\ [][ (op' = "set" /\ stops' # stops) => Sorted(stops') ]_vars
    /\ [](\A s \in StopListInputs : Sorted(add_stops(stops, s)))

\* The setter has replaced the stops of a calculated trip by two stops with
\* different dates.
C11_Witness ==
    /\ op = "set"
    /\ Len(stops) = 2
    /\ stops[1].departure_date < stops[2].departure_date
    /\ stops[1].location.address = NoneStr
    /\ api_response # <<>>

\* C12: in every reachable state, also after calculate_trip has run
\* update_dates and overwritten stop dates, the stops are in ascending order
\* of departure_date.
C12_StopsAlwaysSorted ==
    Sorted(stops)

\* The duration the provider has answered for the first leg, as stored.
FirstLegDuration(resp, stps) ==
    IF stps = <<>> THEN DictGet(resp, "legs").duration
    ELSE DictGet(resp, "departure").duration

\* C13: on a trip with no stops and neither date, a calculate_trip that
\* returns sets departure_date to the current time, warns that the departure
\* date was updated, and sets arrival_date to departure_date plus the stored
\* duration of the only leg.
C13_NoDatesStartNow ==
    [][ (/\ CalculatesDirty
         /\ stops = <<>>
         /\ departure_date = None
         /\ arrival_date = None
         /\ err' = "none")
          => /\ departure_date' = Some(Now)
             /\ UpdatedDeparture \in Range(warns')
             /\ arrival_date' =
                  Some(Now + DictGet(api_response', "legs").duration) ]_vars

\* Such a trip has been calculated; the leg takes a while.
C13_Witness ==
    /\ op \in ComputeOps
    /\ err = "none"
    /\ stops = <<>>
    /\ warns = <<UpdatedDeparture, UpdatedArrivalMissing>>
    /\ departure_date = Some(Now)
    /\ arrival_date # departure_date

\* C14: with only arrival_date set, a calculate_trip that returns sets
\* departure_date to arrival_date minus the duration of the first leg when
\* there are no stops, and to the departure date of the first stop minus the
\* duration of the first leg when there are stops, and warns that the departure
\* date was updated.
C14_DepartureCountedBack ==
    [][ (/\ CalculatesDirty
         /\ departure_date = None
         /\ arrival_date # None
         /\ err' = "none")
          => /\ departure_date' =
                  Some((IF stops = <<>> THEN Val(arrival_date)
                        ELSE stops[1].departure_date)
                       - FirstLegDuration(api_response', stops))
             /\ UpdatedDeparture \in Range(warns') ]_vars

\* A trip with stops and only an arrival date has been calculated; the
\* arrival date given was not the one of the first stop.
C14_Witness ==
    /\ op \in ComputeOps
    /\ err = "none"
    /\ stops # <<>>
    /\ IgnoredStops \in Range(warns)
    /\ UpdatedDeparture \in Range(warns)
    /\ UpdatedArrivalMismatch \in Range(warns)
    /\ FirstLegDuration(api_response, stops) > 0

\* The duration the provider has answered for leg i, as stored under its key.
LegDuration(resp, i) == DictGet(resp, leg_key(i)).duration

\* The number of times warning w is in the list ws.
Count(ws, w) == Cardinality({ k \in 1..Len(ws) : ws[k] = w })

\* C15: when a calculate_trip returns, every stop whose departure date is
\* earlier than its expected arrival (the running time plus the duration of
\* the leg into it) has that arrival as its date, every other stop is
\* unchanged, and a stop date warning is given for each stop that was
\* overwritten and for no other.  The running time of the first stop is the
\* departure date; for a later stop both the given and the stored date of the
\* stop before it are accepted here.
C15_LateStopsAreMoved ==
    [][ (CalculatesDirty /\ stops # <<>> /\ err' = "none")
          => /\ Len(stops') = Len(stops)
             /\ \A i \in 1..Len(stops) :
                   \E running_time \in
                         (IF i = 1 THEN {Val(departure_date')}
                          ELSE {stops[i - 1].departure_date,
                                stops'[i - 1].departure_date}) :
                      LET expected_arrival ==
                              running_time + LegDuration(api_response', i)
                      IN IF stops[i].departure_date < expected_arrival
                         THEN stops'[i] = Stop(stops[i].location, expected_arrival)
                         ELSE stops'[i] = stops[i]
             /\ Count(warns', UpdatedStop) =
                  Cardinality({ i \in 1..Len(stops) : stops'[i] # stops[i] }) ]_vars

\* C16: after a calculate_trip that returns, the schedule can be kept: the
\* first stop is left no earlier than departure_date plus the duration of the
\* first leg, and every later stop no earlier than the date stored for the
\* stop before it plus the duration of the leg between them.
C16_ScheduleIsReachable ==
    (op \in ComputeOps /\ err = "none" /\ stops # <<>>)
        => \A i \in 1..Len(stops) :
              stops[i].departure_date >=
                 (IF i = 1 THEN Val(departure_date)
                  ELSE stops[i - 1].departure_date)
                 + LegDuration(api_response, i)

\* The duration the provider has answered for the last leg, as stored.
FinalLegDuration(resp, stps) ==
    IF stps = <<>> THEN DictGet(resp, "legs").duration
    ELSE DictGet(resp, "arrival").duration

\* C17: when a calculate_trip returns, arrival_date is the stored date of
\* the last stop (departure_date when there are no stops) plus the duration of
\* the last leg; a departure_date that was given is left as given; an
\* arrival_date that was given and differs is overwritten with a warning, one
\* that agrees is kept with no arrival warning.
C17_ArrivalFollowsTheLastLeg ==
    [][ (CalculatesDirty /\ err' = "none")
          => LET new_arrival ==
                     (IF stops' = <<>> THEN Val(departure_date')
                      ELSE Last(stops').departure_date)
                     + FinalLegDuration(api_response', stops')
             IN /\ arrival_date' = Some(new_arrival)
                /\ departure_date # None => departure_date' = departure_date
                /\ (arrival_date # None /\ arrival_date # Some(new_arrival))
                      => UpdatedArrivalMismatch \in Range(warns')
                /\ arrival_date = Some(new_arrival)
                      => /\ UpdatedArrivalMismatch \notin Range(warns')
                         /\ UpdatedArrivalMissing \notin Range(warns') ]_vars

\* C18: whenever a calculate_trip has returned and `updated` is false,
\* departure_date and arrival_date are both set (a stop always carries its
\* date).
C18_FreshTripsAreDated ==
    (op \in ComputeOps /\ err = "none" /\ updated = FALSE)
        => (departure_date # None /\ arrival_date # None)

\* The operations that run update_dates.
ReconcilingOps == ComputeOps \cup {"update_dates"}

\* C19: update_dates never raises: a calculate_trip or update_dates call that
\* found the provider bound, and every leg it asked for answered, returns.
C19_ReconciliationNeverFails ==
    (op \in ReconcilingOps /\ client = "bound" /\ status = "none")
        => err = "none"

\* C20: an update_dates call on a trip marked updated asks the provider for
\* every leg of the trip once, and leaves the trip not marked; on a trip that
\* is not marked it asks for nothing and leaves the response alone.
C20_ReconciliationCalculatesOnce ==
    [][ (op' = "update_dates" /\ client = "bound" /\ status' = "none")
          => IF updated
             THEN /\ Len(calls') = Len(stops) + 1
                  /\ \A i \in 1..Len(calls') :
                        /\ calls'[i].origin = RoutePoints[i]
                        /\ calls'[i].destination = RoutePoints[i + 1]
                  /\ updated' = FALSE
             ELSE /\ calls' = <<>>
                  /\ api_response' = api_response
                  /\ updated' = FALSE ]_vars

\* update_dates has calculated a trip with two stops, and dated it.
C20_Witness ==
    /\ op = "update_dates"
    /\ err = "none"
    /\ Len(stops) = 2
    /\ Len(calls) = 3
    /\ updated = FALSE
    /\ Keys(api_response) = ExpectedKeys(2)
    /\ departure_date # None /\ arrival_date # None

----------------------------------------------------------------------------
(* Derived metrics *)

MetricOps == {"distance", "seconds", "days", "stages_distances",
              "stages_seconds", "travel_calendar"}

\* The distance, in meters, and the duration the provider has answered for
\* leg i, as stored under its key.
LegDistance(resp, stps, i) ==
    IF stps = <<>> THEN DictGet(resp, "legs").distance
    ELSE DictGet(resp, IF i <= Len(stps) THEN stage_key(i - 1) ELSE "arrival").distance

LegSeconds(resp, stps, i) ==
    IF stps = <<>> THEN DictGet(resp, "legs").duration
    ELSE DictGet(resp, IF i <= Len(stps) THEN stage_key(i - 1) ELSE "arrival").duration

\* The sum of f[i] for i in 1..n.
RECURSIVE SumTo(_, _)
SumTo(f, n) == IF n = 0 THEN 0 ELSE SumTo(f, n - 1) + f[n]

C22_SecondsIsTheSumOfTheLegs ==
    (op = "seconds" /\ err = "none" /\ calls # <<>>)
        => /\ ret = <<Rat(SumTo([i \in 1..(Len(stops) + 1) |->
                                   LegSeconds(api_response, stops, i)],
                                Len(stops) + 1), 1)>>
           /\ stages_seconds(stops, api_response).err = "none"
                => ret = <<Rat(Sum(stages_seconds(stops, api_response).value), 1)>>

\* C23: a stages_distances or stages_seconds read that returns on a trip the
\* provider answered gives one entry per stop and one more, entry i being the
\* distance (in the unit of the config) or the duration of leg i of the route,
\* whatever an earlier calculation has stored.
C23_StagesAreTheLegsInOrder ==
    /\ (op = "stages_seconds" /\ err = "none" /\ calls # <<>>)
          => ret = [i \in 1..(Len(stops) + 1) |->
                      Rat(LegSeconds(api_response, stops, i), 1)]
    /\ (op = "stages_distances" /\ err = "none" /\ calls # <<>>)
          => ret = [i \in 1..(Len(stops) + 1) |->
                      in_units(Rat(LegDistance(api_response, stops, i), 1),
                               config)]

\* A stored leg lacks its distance or its duration.
LacksAField(resp) ==
    \E i \in 1..Len(resp) :
        resp[i].value.distance = Missing \/ resp[i].value.duration = Missing

\* C24: a calculate_trip for which the provider answers every leg, one of
\* them without its distance or its duration, stores the answers and returns;
\* InvalidResponseError is left to the later read of a metric.
C24_InvalidResponseOnlyOnRead ==
    (op \in ComputeOps /\ calls # <<>> /\ status = "none"
       /\ LacksAField(api_response))
        => (err = "none" /\ ret = api_response /\ updated = FALSE)

\* The response holds exactly the legs of the trip.
WellKeyed ==
    IF stops = <<>> THEN Keys(api_response) = <<"legs">>
    ELSE Keys(api_response) = ExpectedKeys(Len(stops))

DistanceAbsent(resp) ==
    \E i \in 1..Len(resp) : resp[i].value.distance = Missing
DurationAbsent(resp) ==
    \E i \in 1..Len(resp) : resp[i].value.duration = Missing

\* C25: read on a trip that is not marked and holds exactly its legs, the
\* totals and the per-leg lists follow one rule: distance and
\* stages_distances raise InvalidResponseError exactly when a stored leg has no
\* distance, seconds and stages_seconds exactly when a stored leg has no
\* duration; a value of 0 is taken by all four.
C25_OneMissingFieldPolicy ==
    (op \in {"distance", "stages_distances", "seconds", "stages_seconds"}
       /\ calls = <<>> /\ updated = FALSE /\ WellKeyed)
        => (err = "InvalidResponseError") =
              (IF op \in {"distance", "stages_distances"}
               THEN DistanceAbsent(api_response)
               ELSE DurationAbsent(api_response))

----------------------------------------------------------------------------
(* The updated flag and the stored response *)

\* C26: in every reachable state api_response holds something only when the
\* trip is not marked updated; after a calculate_trip that returned and a
\* setter, api_response is empty.
C26_ResponseOnlyWhenFresh ==
    updated => api_response = <<>>

\* The operations that only set a field, bind the provider or store a
\* response.
SetterOps == {"set", "set_client", "set_response"}

\* C27: no setter asks the provider for anything; a property read on a trip
\* marked updated (with the provider bound) asks for every leg of the trip
\* exactly once, in route order, and leaves the trip not marked; a property
\* read on a trip that is not marked asks for nothing and leaves the flag and
\* the response alone; and whatever the operation, the provider is asked only
\* when the trip was marked (a config argument marks it).
C27_ProviderCallsOnlyInCalculation ==
    [][ /\ op' \in SetterOps => calls' = <<>>
        /\ (op' \in MetricOps /\ client = "bound")
              => IF updated
                 THEN /\ Len(calls') = Len(stops) + 1
                      /\ \A i \in 1..Len(calls') :
                            /\ calls'[i].origin = RoutePoints[i]
                            /\ calls'[i].destination = RoutePoints[i + 1]
                      /\ updated' = FALSE
                 ELSE /\ calls' = <<>>
                      /\ updated' = FALSE
                      /\ api_response' = api_response
        /\ calls' # <<>> => (updated \/ op' = "calculate_trip(config)") ]_vars

\* A property read has calculated a trip with two stops, once.
C27_Witness ==
    /\ op \in MetricOps
    /\ err = "none"
    /\ Len(stops) = 2
    /\ Len(calls) = 3
    /\ updated = FALSE
    /\ Keys(api_response) = ExpectedKeys(2)

\* The operations that run calculate_trip: the method itself, the property
\* reads, and update_dates called by the user on a marked trip.
CalculatingOps == ComputeOps \cup MetricOps \cup {"update_dates"}

\* C28: the updated flag goes from set to cleared only in a step that runs
\* calculate_trip and ends without an error; no other operation clears it and
\* a calculation that raises leaves it set.
C28_ClearedOnlyBySuccessfulCalculation ==
    [][ (updated /\ ~updated') => (op' \in CalculatingOps /\ err' = "none") ]_vars

----------------------------------------------------------------------------
(* Replacing and adding stops *)

\* The stops a caller hands over, in the order given.
Given(inputs) ==
    [i \in 1..Len(inputs) |->
        Stop(input_to_location(inputs[i].loc), inputs[i].dep_date)]

\* The stops of a list that leave on date d, in their order in the list.
WithDate(stps, d) ==
    LET leaves_on(s) == s.departure_date = d
    IN SelectSeq(stps, leaves_on)

DatesOf(stps) == { stps[i].departure_date : i \in 1..Len(stps) }

\* result holds the stops of kept followed by those of added, sorted by
\* departure_date, with the order of kept-then-added preserved among the
\* stops of one date.
IsStableMerge(result, kept, added) ==
    /\ Len(result) = Len(kept) + Len(added)
    /\ Sorted(result)
    /\ \A d \in DatesOf(kept \o added) \cup DatesOf(result) :
          WithDate(result, d) = WithDate(kept, d) \o WithDate(added, d)

----------------------------------------------------------------------------
(* The calendar *)

\* C30: the calendar returned for a trip without stops has one entry for
\* each day from the day of departure_date to the day of arrival_date (that
\* is, days entries), on consecutive dates in ascending order starting at the
\* day of departure_date, and no other entry.
C30_CalendarCoversTheTripDays ==
    (op = "travel_calendar" /\ err = "none" /\ stops = <<>>)
        => /\ departure_date # None
           /\ arrival_date # None
           /\ LET first == date(Val(departure_date))
                  trip_days == date(Val(arrival_date)) - first + 1
              IN /\ Len(ret) = trip_days
                 /\ \A k \in 1..Len(ret) : ret[k].day = first + (k - 1)

\* A calendar of more than one day has been returned.
C30_Witness ==
    /\ op = "travel_calendar"
    /\ err = "none"
    /\ stops = <<>>
    /\ Len(ret) >= 2
    /\ ret[1].day + 1 = ret[2].day

RECURSIVE RatSum(_)
RatSum(s) == IF s = <<>> THEN Rat(0, 1) ELSE RatAdd(RatSum(Front(s)), Last(s))

\* The meters of the steps of the stored leg, summed.
StepsMeters(resp) ==
    Sum([i \in 1..Len(single_leg(resp).steps) |->
            single_leg(resp).steps[i].distance])

\* C31: the amounts of a returned calendar add up to the distance of the
\* steps of the leg (in kilometres, for metric units), whatever the time of
\* departure and however many midnights the steps cross.
C31_CalendarConservesDistance ==
    (/\ op = "travel_calendar"
     /\ err = "none"
     /\ stops = <<>>
     /\ config_units(config) = "metric")
        => RatSum([k \in 1..Len(ret) |-> ret[k].amount])
              = Rat(StepsMeters(api_response), 1000)

\* The stored leg has a step of duration zero.
HasZeroStep(resp) ==
    \E i \in 1..Len(single_leg(resp).steps) :
        single_leg(resp).steps[i].duration = 0

\* C32: reading the calendar of a trip without stops, with both dates set
\* and the arrival not on an earlier day than the departure, whose stored leg
\* has a step of duration zero, raises InvalidResponseError and returns no
\* calendar, wherever the step is among the steps.
C32_ZeroDurationStepIsRejected ==
    (/\ op = "travel_calendar"
     /\ stops = <<>>
     /\ departure_date # None
     /\ arrival_date # None
     /\ date(Val(departure_date)) <= date(Val(arrival_date))
     /\ HasZeroStep(api_response))
        => err = "InvalidResponseError"

----------------------------------------------------------------------------
(* calculate_trip with a config *)

\* C33: a calculate_trip that is handed a non-empty config (with the
\* provider bound) leaves a non-empty config and asks the provider for every
\* leg of the trip, also when the trip was not marked updated and the config
\* is the one it had; a calculate_trip without a config, or with an empty
\* one, on a trip that is not marked asks for nothing and leaves the config
\* and the flag as they are.
C33_ConfigAlwaysRecalculates ==
    [][ /\ (op' = "calculate_trip(config)" /\ client = "bound" /\ status' = "none")
              => /\ config_truthy(config')
                 /\ Len(calls') = Len(stops) + 1
                 /\ \A i \in 1..Len(calls') :
                       /\ calls'[i].origin = RoutePoints[i]
                       /\ calls'[i].destination = RoutePoints[i + 1]
        /\ (op' = "calculate_trip" /\ ~updated)
              => /\ calls' = <<>>
                 /\ config' = config
                 /\ ~updated' ]_vars

\* A calculation with a config has asked for both legs of a trip that had
\* been calculated before.
C33_Witness ==
    /\ op = "calculate_trip(config)"
    /\ err = "none"
    /\ ops >= 2
    /\ Len(stops) = 1
    /\ Len(calls) = 2
    /\ Keys(api_response) = ExpectedKeys(1)

----------------------------------------------------------------------------
(* update_dates on a trip that is not marked updated *)

\* C34: update_dates called on a trip that is not marked updated leaves the
\* origin, the destination, the config, the number of stops, the location of
\* every stop, the stored response and the flag (still not set) as they
\* were, and asks the provider for nothing; only departure_date, arrival_date
\* and the departure dates of the stops may differ afterwards.
C34_UpdateDatesChangesOnlyDates ==
    [][ (op' = "update_dates" /\ ~updated)
          => /\ origin' = origin
             /\ destination' = destination
             /\ config' = config
             /\ Len(stops') = Len(stops)
             /\ \A i \in 1..Len(stops) : stops'[i].location = stops[i].location
             /\ api_response' = api_response
             /\ ~updated'
             /\ calls' = <<>> ]_vars

\* update_dates has moved the date of a stop of a trip that was not marked
\* (no request went out and the flag is not set).
C34_Witness ==
    /\ op = "update_dates"
    /\ err = "none"
    /\ ~updated
    /\ calls = <<>>
    /\ Len(stops) = 2
    /\ stops[1].location # stops[2].location
    /\ UpdatedStop \in Range(warns)

----------------------------------------------------------------------------
(* The order of the dates a calculation leaves *)

\* C35: after a calculate_trip that asked the provider and returned, on a
\* trip that has both dates,
\* arrival_date is not earlier than departure_date and the trip has at least
\* one day, whatever departure date and stop dates were given (stop dates
\* earlier than the departure date included).
C35_ArrivalNotBeforeDeparture ==
    (/\ op \in ComputeOps
     /\ err = "none"
     /\ calls # <<>>
     /\ departure_date # None
     /\ arrival_date # None)
        => /\ Val(arrival_date) >= Val(departure_date)
           /\ date(Val(arrival_date)) - date(Val(departure_date)) + 1 >= 1

----------------------------------------------------------------------------
(* update_dates run again *)

\* The trip has just been reconciled: the last operation was a calculation
\* that asked the provider, or update_dates, it returned, and the trip is not
\* marked updated.
Reconciled ==
    /\ ~updated
    /\ err = "none"
    /\ \/ op \in ComputeOps /\ calls # <<>>
       \/ op = "update_dates"

DateUpdates ==
    {UpdatedDeparture, UpdatedStop, UpdatedArrivalMissing, UpdatedArrivalMismatch}

\* C36: update_dates called right after a reconciliation that returned, with
\* no setter in between, changes neither departure_date nor arrival_date nor
\* the date of any stop and warns of no updated date.
C36_UpdateDatesIsIdempotent ==
    [][ (Reconciled /\ op' = "update_dates")
          => /\ departure_date' = departure_date
             /\ arrival_date' = arrival_date
             /\ stops' = stops
             /\ Range(warns') \cap DateUpdates = {} ]_vars

----------------------------------------------------------------------------
(* The days the calendar is written at *)

----------------------------------------------------------------------------
(* The anchor of later calculations *)

\* C38: a request anchored by arrival_time is issued only by an operation
\* that starts on a trip without stops, without departure_date, with
\* arrival_date and leaves the mode "transit"; and a calculation that follows
\* right after a calculate_trip that returned (the caller has set nothing in
\* between, so it has not unset departure_date) anchors every request it
\* issues by departure_time.
C38_ArrivalAnchorOnlyBeforeReconciliation ==
    [][ /\ (\E i \in 1..Len(calls') : calls'[i].anchor = "arrival_time")
              => /\ stops = <<>>
                 /\ departure_date = None
                 /\ arrival_date # None
                 /\ config_mode(config') = "transit"
        /\ (op \in ComputeOps /\ err = "none" /\ op' \in ComputeOps)
              => \A i \in 1..Len(calls') :
                    calls'[i].anchor = "departure_time" ]_vars

----------------------------------------------------------------------------
(* An arrival date the caller never gave *)

IgnoredFields == {IgnoredStops, IgnoredMode}

\* C39: a calculate_trip that follows right after a calculate_trip which
\* returned and filled arrival_date in itself (it warned that no arrival date
\* was provided; the caller has set nothing since) warns of no ignored
\* arrival_date.
C39_IgnoredFieldOnlyForGivenArrival ==
    [][ (/\ op \in ComputeOps
         /\ err = "none"
         /\ UpdatedArrivalMissing \in Range(warns)
         /\ op' \in ComputeOps)
          => Range(warns') \cap IgnoredFields = {} ]_vars

====
